---- MODULE Spec2Model ----
(***************************************************************************)
(* Build catalog service (app.py): a Flask application that reads          *)
(* devices.json and builds.json on every request and serves five GET       *)
(* routes.  Strings are sequences of one-character strings, so that        *)
(* split, replace, splitext and comparison are computed character by       *)
(* character, as Python computes them.  A Python dict is a function, a     *)
(* JSON object a record, a JSON array a sequence, and an optional value    *)
(* (None or a value v) is << >> or << v >>.                                 *)
(***************************************************************************)
EXTENDS Integers, Sequences, FiniteSets, TLC

VARIABLES devices_json, builds_json, pc, request, locals, fetched, response

vars == <<devices_json, builds_json, pc, request, locals, fetched, response>>

(***************************************************************************)
(* Bounds of the model.                                                    *)
(***************************************************************************)
\* Longest build list of one manifest entry.
MaxBuilds == 2
\* Most builds in the whole manifest when two requests run concurrently.
MaxConcBuilds == 1

(***************************************************************************)
(* Python string operations.                                               *)
(***************************************************************************)
\* The characters the model uses, in code point order.
Chars ==
  <<"\n", " ", "!", "'", ",", "-", ".", "/", "0", "1", "2", "3", "4", "5",
    "6", "7", "8", "9", ":", "<", ">", "A", "B", "C", "D", "E", "F", "G",
    "H", "I", "J", "K", "L", "M", "N", "O", "P", "Q", "R", "S", "T", "U",
    "V", "W", "X", "Y", "Z", "a", "b", "c", "d", "e", "f", "g", "h", "i",
    "j", "k", "l", "m", "n", "o", "p", "q", "r", "s", "t", "u", "v", "w",
    "x", "y", "z">>

Ord(c) == CHOOSE i \in 1..Len(Chars) : Chars[i] = c

IsDigit(c) == c \in {"0", "1", "2", "3", "4", "5", "6", "7", "8", "9"}

DigitVal(c) == Ord(c) - Ord("0")

DigitChar(n) == Chars[Ord("0") + n]

\* str > str: lexicographic by code point, a proper prefix being smaller.
RECURSIVE StrGT(_, _)
StrGT(a, b) ==
  IF a = << >> THEN FALSE
  ELSE IF b = << >> THEN TRUE
  ELSE IF Head(a) = Head(b) THEN StrGT(Tail(a), Tail(b))
  ELSE Ord(Head(a)) > Ord(Head(b))

\* str.split(sep) for a one-character separator.
RECURSIVE split(_, _)
split(s, sep) ==
  IF \A i \in 1..Len(s) : s[i] # sep THEN << s >>
  ELSE LET i == CHOOSE k \in 1..Len(s) :
                  s[k] = sep /\ \A j \in 1..(k - 1) : s[j] # sep
       IN  << SubSeq(s, 1, i - 1) >> \o split(SubSeq(s, i + 1, Len(s)), sep)

\* str.replace(old, new): every non-overlapping occurrence, left to right.
RECURSIVE replace(_, _, _)
replace(s, old, new) ==
  IF Len(s) < Len(old) THEN s
  ELSE IF SubSeq(s, 1, Len(old)) = old
       THEN new \o replace(SubSeq(s, Len(old) + 1, Len(s)), old, new)
       ELSE << Head(s) >> \o replace(Tail(s), old, new)

LastIndex(s, c) ==
  IF \A i \in 1..Len(s) : s[i] # c THEN 0
  ELSE CHOOSE i \in 1..Len(s) : s[i] = c /\ \A j \in (i + 1)..Len(s) : s[j] # c

\* os.path.splitext(p)[0]: p without its extension, the extension starting
\* at the last dot of the last path component, leading dots not counting.
splitext(p) ==
  LET sepIndex == LastIndex(p, "/")
      dotIndex == LastIndex(p, ".")
  IN  IF /\ dotIndex > sepIndex
         /\ \E k \in (sepIndex + 1)..(dotIndex - 1) : p[k] # "."
      THEN SubSeq(p, 1, dotIndex - 1)
      ELSE p

\* posixpath.join(a, b).
PathJoin(a, b) ==
  IF b # << >> /\ Head(b) = "/" THEN b
  ELSE IF a = << >> \/ a[Len(a)] = "/" THEN a \o b
  ELSE a \o << "/" >> \o b

(***************************************************************************)
(* Dates.                                                                  *)
(***************************************************************************)
DayNames ==
  << <<"M", "o", "n", "d", "a", "y">>,
     <<"T", "u", "e", "s", "d", "a", "y">>,
     <<"W", "e", "d", "n", "e", "s", "d", "a", "y">>,
     <<"T", "h", "u", "r", "s", "d", "a", "y">>,
     <<"F", "r", "i", "d", "a", "y">>,
     <<"S", "a", "t", "u", "r", "d", "a", "y">>,
     <<"S", "u", "n", "d", "a", "y">> >>

MonthNames ==
  << <<"J", "a", "n", "u", "a", "r", "y">>,
     <<"F", "e", "b", "r", "u", "a", "r", "y">>,
     <<"M", "a", "r", "c", "h">>,
     <<"A", "p", "r", "i", "l">>,
     <<"M", "a", "y">>,
     <<"J", "u", "n", "e">>,
     <<"J", "u", "l", "y">>,
     <<"A", "u", "g", "u", "s", "t">>,
     <<"S", "e", "p", "t", "e", "m", "b", "e", "r">>,
     <<"O", "c", "t", "o", "b", "e", "r">>,
     <<"N", "o", "v", "e", "m", "b", "e", "r">>,
     <<"D", "e", "c", "e", "m", "b", "e", "r">> >>

RECURSIVE ToInt(_)
ToInt(s) == IF s = << >> THEN 0
            ELSE 10 * ToInt(SubSeq(s, 1, Len(s) - 1)) + DigitVal(s[Len(s)])

IsLeap(y) == (y % 4 = 0 /\ y % 100 # 0) \/ y % 400 = 0

DaysInMonth(y, m) ==
  IF m = 2 THEN (IF IsLeap(y) THEN 29 ELSE 28)
  ELSE IF m \in {4, 6, 9, 11} THEN 30 ELSE 31

\* Days from 1970-01-01 to the proleptic Gregorian date y-m-d.
DaysFromEpoch(y, m, d) ==
  LET yy  == IF m <= 2 THEN y - 1 ELSE y
      era == yy \div 400
      yoe == yy - era * 400
      mp  == IF m > 2 THEN m - 3 ELSE m + 9
      doy == (153 * mp + 2) \div 5 + d - 1
      doe == yoe * 365 + yoe \div 4 - yoe \div 100 + doy
  IN  era * 146097 + doe - 719468

ValidDate(y, m, d) == m \in 1..12 /\ d \in 1..DaysInMonth(y, m)

\* datetime.strptime(s, '%Y%m%d') accepts s.
strptime_ok(s) ==
  /\ Len(s) = 8
  /\ \A i \in 1..8 : IsDigit(s[i])
  /\ ValidDate(ToInt(SubSeq(s, 1, 4)), ToInt(SubSeq(s, 5, 6)),
               ToInt(SubSeq(s, 7, 8)))

\* datetime.strftime(datetime.strptime(s, '%Y%m%d'), '%A, %d %B - %Y').
strftime(s) ==
  LET y == ToInt(SubSeq(s, 1, 4))
      m == ToInt(SubSeq(s, 5, 6))
      d == ToInt(SubSeq(s, 7, 8))
      weekday == (DaysFromEpoch(y, m, d) + 3) % 7
  IN  DayNames[weekday + 1] \o <<",", " ">>
        \o << DigitChar(d \div 10), DigitChar(d % 10) >> \o << " " >>
        \o MonthNames[m] \o <<" ", "-", " ">>
        \o << DigitChar(y \div 1000), DigitChar((y \div 100) % 10),
              DigitChar((y \div 10) % 10), DigitChar(y % 10) >>

\* arrow.get(s).timestamp for an ISO date 'YYYY-MM-DD': midnight UTC.
arrow_timestamp(s) ==
  DaysFromEpoch(ToInt(SubSeq(s, 1, 4)), ToInt(SubSeq(s, 6, 7)),
                ToInt(SubSeq(s, 9, 10))) * 86400

(***************************************************************************)
(* Python dicts and JSON objects.                                          *)
(***************************************************************************)
EmptyDict == << >>

DictSet(d, k, v) ==
  [x \in (DOMAIN d) \cup {k} |-> IF x = k THEN v ELSE d[x]]

None == << >>

\* obj.get(k) of a JSON object.
Get(obj, k) == IF k \in DOMAIN obj THEN << obj[k] >> ELSE None

\* if obj.get(k): for a JSON boolean.
Truthy(obj, k) == k \in DOMAIN obj /\ obj[k] = TRUE

(***************************************************************************)
(* Module constants of app.py.                                             *)
(***************************************************************************)
official == <<"o", "f", "f", "i", "c", "i", "a", "l">>
gapps == <<"g", "a", "p", "p", "s">>
beta == <<"b", "e", "t", "a">>

ALLOWED_BUILDTYPES == {official, gapps}

DOWNLOAD_BASE_URL ==
  <<"h", "t", "t", "p", "s", ":", "/", "/", "g", "e", "t", ".", "a", "o",
    "s", "i", "p", ".", "d", "e", "v">>

changelog_base_url ==
  <<"h", "t", "t", "p", "s", ":", "/", "/", "r", "a", "w", ".", "g", "i",
    "t", "h", "u", "b", "u", "s", "e", "r", "c", "o", "n", "t", "e", "n",
    "t", ".", "c", "o", "m", "/", "A", "O", "S", "i", "P", "-", "D", "e",
    "v", "i", "c", "e", "s", "/", "U", "p", "d", "a", "t", "e", "r", "-",
    "S", "t", "u", "f", "f", "/", "m", "a", "s", "t", "e", "r">>

changelog_name == <<"c", "h", "a", "n", "g", "e", "l", "o", "g">>

\* The literal of line 169 and the join of line 183 are the same URL.
changelog_url == PathJoin(changelog_base_url, changelog_name)

device_changelog_url(device) ==
  PathJoin(PathJoin(changelog_base_url, device), changelog_name)

(***************************************************************************)
(* What a view returns to the client.  An exception no handler catches is  *)
(* an error response; so is a view that returns None, which Flask refuses  *)
(* with a TypeError.                                                       *)
(***************************************************************************)
Text(s) == [kind |-> "text", text |-> s]

Template(name, ctx) == [kind |-> "template", template |-> name, context |-> ctx]

Json(obj) == [kind |-> "json", json |-> obj]

Error(exc) == [kind |-> "error", exception |-> exc]

NoResponse == [kind |-> "none"]

\* The result of a helper: a value returned, or an exception raised.
Returned(v) == [raised |-> "", value |-> v]

Raised(exc) == [raised |-> exc, value |-> << >>]

(***************************************************************************)
(* The two files, and the values they are drawn from.                      *)
(***************************************************************************)
devA == << "a" >>
devB == << "b" >>

Codenames == {devA, devB}

DeviceA ==
  [codename |-> devA,
   device |-> <<"P", "h", "o", "n", "e", " ", "A">>,
   xda |-> <<"h", "t", "t", "p", "s", ":", "/", "/", "x", ".", "d", "a", "/", "a">>,
   maintainer |-> <<"m">>]

DeviceB == [codename |-> devB, device |-> <<"P", "h", "o", "n", "e", " ", "B">>]

Directories == { << DeviceA >>, << DeviceA, DeviceB >> }

\* An official build of a with both image flags.
BuildO1 ==
  [filename |-> <<"A", "-", "1", "0", "-", "O", "-", "a", "-", "2", "0", "2",
                  "0", "0", "1", "0", "2", ".", "z", "i", "p">>,
   type |-> official, version |-> <<"1", "0">>,
   date |-> <<"2", "0", "2", "0", "-", "0", "1", "-", "0", "2">>,
   sha256 |-> <<"s", "1">>, filepath |-> <<"/", "a", "/">>, size |-> 11,
   fastboot_images |-> TRUE, boot_image |-> TRUE]

\* A later official build of a with no image.
BuildO2 ==
  [filename |-> <<"A", "-", "1", "0", "-", "O", "-", "a", "-", "2", "0", "2",
                  "0", "0", "3", "0", "1", ".", "z", "i", "p">>,
   type |-> official, version |-> <<"1", "0">>,
   date |-> <<"2", "0", "2", "0", "-", "0", "3", "-", "0", "1">>,
   sha256 |-> <<"s", "2">>, filepath |-> <<"/", "a", "/">>, size |-> 12,
   fastboot_images |-> FALSE]

\* An older gapps build of a, with fastboot images, its filepath without a
\* trailing slash.
BuildG ==
  [filename |-> <<"A", "-", "9", ".", "0", "-", "G", "-", "a", "-", "2", "0",
                  "1", "9", "1", "2", "3", "1", ".", "z", "i", "p">>,
   type |-> gapps, version |-> <<"9", ".", "0">>,
   date |-> <<"2", "0", "1", "9", "-", "1", "2", "-", "3", "1">>,
   sha256 |-> <<"s", "3">>, filepath |-> <<"/", "g">>, size |-> 13,
   fastboot_images |-> TRUE]

\* A build of b whose type is not allow-listed, with both image flags.
BuildX ==
  [filename |-> <<"A", "-", "1", "0", "-", "B", "-", "b", "-", "2", "0", "2",
                  "0", "0", "1", "0", "2", ".", "z", "i", "p">>,
   type |-> beta, version |-> <<"1", "0">>,
   date |-> <<"2", "0", "2", "0", "-", "0", "1", "-", "0", "2">>,
   sha256 |-> <<"s", "4">>, filepath |-> <<"/", "b", "/">>, size |-> 14,
   fastboot_images |-> TRUE, boot_image |-> TRUE]

Pool == {BuildO1, BuildO2, BuildG, BuildX}

\* The build lists of a manifest entry: no build listed twice.
BuildLists ==
  { l \in UNION { [1..n -> Pool] : n \in 0..MaxBuilds } :
      \A i, j \in DOMAIN l : i # j => l[i] # l[j] }

Entry(k, l) == [codename |-> k, builds |-> l]

\* builds.json: a JSON object, its keys in file order.
Manifests ==
  { << >> }
    \cup { << Entry(k, l) >> : k \in Codenames, l \in BuildLists }
    \cup { << Entry(k[1], l1), Entry(k[2], l2) >> :
             k \in { << devA, devB >>, << devB, devA >> },
             l1 \in BuildLists, l2 \in BuildLists }

RECURSIVE CountBuilds(_)
CountBuilds(entries) ==
  IF entries = << >> THEN 0
  ELSE Len(Head(entries).builds) + CountBuilds(Tail(entries))

\* The responses the upstream changelog host may give to a GET.
UpstreamResponses ==
  { [status |-> 200, text |-> <<"x", "\n", "y">>],
    [status |-> 200, text |-> <<"z">>],
    [status |-> 404, text |-> <<"n", "\n">>] }

DeviceArgs == Codenames

\* The worker threads of the server.
Workers == {"w1", "w2"}

RomtypeArgs == {official, gapps, beta}

(***************************************************************************)
(* Loading the files.                                                      *)
(***************************************************************************)
\* json.loads(builds.json): the keys, and the value at a key.
ManifestKeys == { builds_json[i].codename : i \in DOMAIN builds_json }

ManifestGet(k) ==
  builds_json[CHOOSE i \in DOMAIN builds_json : builds_json[i].codename = k].builds

\* {d['codename']: d['device'] for d in data}: a later record of the same
\* codename overrides an earlier one.
parse_devices(data) ==
  [c \in { data[i].codename : i \in DOMAIN data } |->
     data[CHOOSE i \in DOMAIN data :
            /\ data[i].codename = c
            /\ \A j \in DOMAIN data : data[j].codename = c => j <= i].device]

\* A dict built once and shared: every caller gets the object that a
\* request in show_files is adding its fallback entries to.
get_devices_shared ==
  IF \E w \in Workers : pc[w] \in {"show_files_loop", "show_files_render"}
  THEN locals[CHOOSE w \in Workers :
                pc[w] \in {"show_files_loop", "show_files_render"}].devices
  ELSE parse_devices(devices_json)

\* A fresh dict on every call.
get_devices == parse_devices(devices_json)

RECURSIVE Filenames(_)
Filenames(entries) ==
  IF entries = << >> THEN << >>
  ELSE [i \in 1..Len(Head(entries).builds) |-> Head(entries).builds[i].filename]
         \o Filenames(Tail(entries))

\* [build['filename'] for device in builds for build in builds[device]]
get_zips == Filenames(builds_json)

\* The last build of the type instead of the first.
RECURSIVE last_of_type(_, _)
last_of_type(builds, romtype) ==
  IF builds = << >> THEN << >>
  ELSE IF builds[Len(builds)].type = romtype THEN << builds[Len(builds)] >>
  ELSE last_of_type(SubSeq(builds, 1, Len(builds) - 1), romtype)

\* The loop of get_latest: the first build of the type.
RECURSIVE first_of_type(_, _)
first_of_type(builds, romtype) ==
  IF builds = << >> THEN << >>
  ELSE IF Head(builds).type = romtype THEN << Head(builds) >>
  ELSE first_of_type(Tail(builds), romtype)

\* get_latest returns {} (here << >>) or a build (<< build >>); indexing the
\* manifest by a device it does not hold raises KeyError.
get_latest(device, romtype) ==
  IF device \notin DOMAIN get_devices THEN Returned(<< >>)
  ELSE IF device \notin ManifestKeys THEN Raised("KeyError")
  ELSE Returned(first_of_type(ManifestGet(device), romtype))

(***************************************************************************)
(* The views.                                                              *)
(***************************************************************************)
\* The date of the last zip of a codename kept, whatever the dates.
RECURSIVE show_files_scan_last(_, _, _)
show_files_scan_last(zips, devices, build_dates) ==
  IF zips = << >>
  THEN [raised |-> "", devices |-> devices, build_dates |-> build_dates]
  ELSE LET zip == split(splitext(Head(zips)), "-")
       IN  IF Len(zip) < 5
           THEN [raised |-> "IndexError", devices |-> devices,
                 build_dates |-> build_dates]
           ELSE show_files_scan_last(
                  Tail(zips),
                  IF zip[4] \notin DOMAIN devices
                  THEN DictSet(devices, zip[4], zip[4]) ELSE devices,
                  DictSet(build_dates, zip[4], zip[5]))

\* The loop of show_files over the zips: the devices mapping with the
\* fallback entries added and the greatest date kept per codename.  A
\* filename with fewer than five fields raises IndexError.
RECURSIVE show_files_scan(_, _, _)
show_files_scan(zips, devices, build_dates) ==
  IF zips = << >>
  THEN [raised |-> "", devices |-> devices, build_dates |-> build_dates]
  ELSE LET zip == split(splitext(Head(zips)), "-")
       IN  IF Len(zip) < 5
           THEN [raised |-> "IndexError", devices |-> devices,
                 build_dates |-> build_dates]
           ELSE LET device == zip[4]
                    build_date == zip[5]
                    devices2 == IF device \notin DOMAIN devices
                                THEN DictSet(devices, device, device)
                                ELSE devices
                    build_dates2 ==
                      IF \/ device \notin DOMAIN build_dates
                         \/ StrGT(build_date, build_dates[device])
                      THEN DictSet(build_dates, device, build_date)
                      ELSE build_dates
                IN  show_files_scan(Tail(zips), devices2, build_dates2)

\* Lines 87-92: the dates reformatted and the page rendered; a date that
\* strptime refuses raises ValueError.
show_files_page(devices, build_dates) ==
  IF \E d \in DOMAIN build_dates : ~strptime_ok(build_dates[d])
  THEN Error("ValueError")
  ELSE Template("latest.html",
                [devices |-> devices,
                 build_dates |-> [d \in DOMAIN build_dates |->
                                    strftime(build_dates[d])]])

\* The allow-list guarding the base key only: a build of any type adds its
\* -img and -boot keys.
RECURSIVE available_files_unguarded(_, _)
available_files_unguarded(builds, available_files) ==
  IF builds = << >> THEN available_files
  ELSE LET build == Head(builds)
           buildtype == build.type
           f1 == IF buildtype \in ALLOWED_BUILDTYPES
                 THEN DictSet(available_files, buildtype, build.filename)
                 ELSE available_files
           f2 == IF Truthy(build, "fastboot_images")
                 THEN DictSet(f1, buildtype \o <<"-", "i", "m", "g">>,
                              replace(build.filename, <<".", "z", "i", "p">>,
                                      <<"-", "i", "m", "g", ".", "z", "i", "p">>))
                 ELSE f1
           f3 == IF Truthy(build, "boot_image")
                 THEN DictSet(f2, buildtype \o <<"-", "b", "o", "o", "t">>,
                              replace(build.filename, <<".", "z", "i", "p">>,
                                      <<"-", "b", "o", "o", "t", ".", "i", "m", "g">>))
                 ELSE f2
       IN  available_files_unguarded(Tail(builds), f3)

\* The loop of latest_device over the builds of the device.
RECURSIVE available_files_of(_, _)
available_files_of(builds, available_files) ==
  IF builds = << >> THEN available_files
  ELSE LET build == Head(builds)
           buildtype == build.type
           f1 == DictSet(available_files, buildtype, build.filename)
           f2 == IF Truthy(build, "fastboot_images")
                 THEN DictSet(f1, buildtype \o <<"-", "i", "m", "g">>,
                              replace(build.filename, <<".", "z", "i", "p">>,
                                      <<"-", "i", "m", "g", ".", "z", "i", "p">>))
                 ELSE f1
           f3 == IF Truthy(build, "boot_image")
                 THEN DictSet(f2, buildtype \o <<"-", "b", "o", "o", "t">>,
                              replace(build.filename, <<".", "z", "i", "p">>,
                                      <<"-", "b", "o", "o", "t", ".", "i", "m", "g">>))
                 ELSE f2
       IN  available_files_of(Tail(builds),
                              IF buildtype \in ALLOWED_BUILDTYPES
                              THEN f3 ELSE available_files)

\* The for/else of latest_device over the device directory: the first
\* record of the codename, or the fallback.
device_info(target_device) ==
  IF \E i \in DOMAIN devices_json : devices_json[i].codename = target_device
  THEN LET i == CHOOSE k \in DOMAIN devices_json :
                  /\ devices_json[k].codename = target_device
                  /\ \A j \in 1..(k - 1) :
                       devices_json[j].codename # target_device
           device == devices_json[i]
       IN  [xda |-> Get(device, "xda"), model |-> Get(device, "device"),
            maintainer |-> Get(device, "maintainer")]
  ELSE [xda |-> None, model |-> << target_device >>, maintainer |-> None]

\* f"There isn't any build for {target_device} available here!"
no_build_message(target_device) ==
  <<"T", "h", "e", "r", "e", " ", "i", "s", "n", "'", "t", " ", "a", "n",
    "y", " ", "b", "u", "i", "l", "d", " ", "f", "o", "r", " ">>
    \o target_device
    \o <<" ", "a", "v", "a", "i", "l", "a", "b", "l", "e", " ", "h", "e", "r",
         "e", "!">>

latest_device_view(target_device) ==
  IF target_device \notin ManifestKeys
  THEN Text(no_build_message(target_device))
  ELSE LET available_files ==
             available_files_of(ManifestGet(target_device), EmptyDict)
           info == device_info(target_device)
       IN  IF DOMAIN available_files # {}
           THEN Template("device.html",
                         [available_files |-> available_files,
                          device |-> target_device,
                          model |-> info.model,
                          xda |-> info.xda,
                          maintainer |-> info.maintainer])
           \* The function ends without a return: the view returns None.
           ELSE Error("TypeError")

\* Lines 147-163 of ota, given what get_latest did.
ota_json(got) ==
  IF got.raised # "" THEN Error(got.raised)
  ELSE IF got.value = << >> THEN Json([response |-> << >>])
  ELSE LET rom == got.value[1]
       IN  Json([response |->
             << [id |-> rom.sha256,
                 url |-> DOWNLOAD_BASE_URL \o rom.filepath \o rom.filename,
                 romtype |-> rom.type,
                 datetime |-> arrow_timestamp(rom.date),
                 version |-> rom.version,
                 filename |-> rom.filename,
                 size |-> rom.size] >>])

ota_view(device, romtype) == ota_json(get_latest(device, romtype))

\* 'Fetching changelog failed!'
changelog_failed_message ==
  <<"F", "e", "t", "c", "h", "i", "n", "g", " ", "c", "h", "a", "n", "g",
    "e", "l", "o", "g", " ", "f", "a", "i", "l", "e", "d", "!">>

\* f"Fetching changelog for {device} failed!"
device_changelog_failed_message(device) ==
  <<"F", "e", "t", "c", "h", "i", "n", "g", " ", "c", "h", "a", "n", "g",
    "e", "l", "o", "g", " ", "f", "o", "r", " ">>
    \o device
    \o <<" ", "f", "a", "i", "l", "e", "d", "!">>

\* The status of the upstream response is not read.
changelog_view_unchecked(up) ==
  Text(replace(up.text, << "\n" >>, <<"<", "b", "r", ">">>))

\* changelog, given the upstream response.
changelog_view(up) ==
  IF up.status # 200
  THEN Text(changelog_failed_message)
  ELSE Text(replace(up.text, << "\n" >>, <<"<", "b", "r", ">">>))

\* The per-device changelog put before the global one.
changelog_device_view_swapped(device, changelog, up) ==
  IF up.status # 200
  THEN Text(device_changelog_failed_message(device))
  ELSE Text(replace(up.text \o << "\n" >> \o changelog,
                    << "\n" >>, <<"<", "b", "r", ">">>))

\* changelog_device from line 188 on, given the text of the global
\* changelog and the upstream response to the per-device fetch.
changelog_device_view(device, changelog, up) ==
  IF up.status # 200
  THEN Text(device_changelog_failed_message(device))
  ELSE Text(replace(changelog \o << "\n" >> \o up.text,
                    << "\n" >>, <<"<", "b", "r", ">">>))

(***************************************************************************)
(* The requests.  Each worker thread of the server serves one request at   *)
(* a time: pc is where it is in the view, request what it was asked,       *)
(* locals the view's local variables, fetched the upstream GETs it made    *)
(* with their answers, response what it returned.                          *)
(***************************************************************************)
Req(route, device, romtype) ==
  [route |-> route, device |-> device, romtype |-> romtype]

NoRequest == Req("", << >>, << >>)

NoLocals ==
  [zips |-> << >>, devices |-> EmptyDict, build_dates |-> EmptyDict,
   changelog |-> << >>]

Fetch(url, up) == [url |-> url, status |-> up.status, text |-> up.text]

\* The view returns: the response is kept until the worker is released.
Respond(self, req, resp, gets) ==
  /\ pc' = [pc EXCEPT ![self] = "done"]
  /\ request' = [request EXCEPT ![self] = req]
  /\ response' = [response EXCEPT ![self] = resp]
  /\ fetched' = [fetched EXCEPT ![self] = gets]
  /\ locals' = [locals EXCEPT ![self] = NoLocals]
  /\ UNCHANGED <<devices_json, builds_json>>

\* Lines 75-77.
show_files_begin(self) ==
  /\ pc[self] = "idle"
  /\ pc' = [pc EXCEPT ![self] = "show_files_loop"]
  /\ request' = [request EXCEPT ![self] = Req("show_files", << >>, << >>)]
  /\ locals' = [locals EXCEPT ![self] =
                  [NoLocals EXCEPT !.zips = get_zips, !.devices = get_devices]]
  /\ UNCHANGED <<devices_json, builds_json, fetched, response>>

\* Lines 78-85.
show_files_loop(self) ==
  /\ pc[self] = "show_files_loop"
  /\ LET scan == show_files_scan(locals[self].zips, locals[self].devices,
                                 locals[self].build_dates)
     IN  IF scan.raised # ""
         THEN Respond(self, request[self], Error(scan.raised), << >>)
         ELSE /\ pc' = [pc EXCEPT ![self] = "show_files_render"]
              /\ locals' = [locals EXCEPT ![self].devices = scan.devices,
                                          ![self].build_dates = scan.build_dates]
              /\ UNCHANGED <<devices_json, builds_json, request, fetched,
                             response>>

\* Lines 87-92.
show_files_render(self) ==
  /\ pc[self] = "show_files_render"
  /\ Respond(self, request[self],
             show_files_page(locals[self].devices, locals[self].build_dates),
             << >>)

latest_device(self, target_device) ==
  /\ pc[self] = "idle"
  /\ Respond(self, Req("latest_device", target_device, << >>),
             latest_device_view(target_device), << >>)

ota(self, device, romtype) ==
  /\ pc[self] = "idle"
  /\ Respond(self, Req("ota", device, romtype), ota_view(device, romtype),
             << >>)

changelog(self, up) ==
  /\ pc[self] = "idle"
  /\ Respond(self, Req("changelog", << >>, << >>), changelog_view(up),
             << Fetch(changelog_url, up) >>)

\* Lines 180-186: the global changelog is fetched, its status not read.
changelog_device_begin(self, device, up) ==
  /\ pc[self] = "idle"
  /\ pc' = [pc EXCEPT ![self] = "changelog_device_fetch"]
  /\ request' = [request EXCEPT ![self] = Req("changelog_device", device, << >>)]
  /\ locals' = [locals EXCEPT ![self] = [NoLocals EXCEPT !.changelog = up.text]]
  /\ fetched' = [fetched EXCEPT ![self] = << Fetch(changelog_url, up) >>]
  /\ UNCHANGED <<devices_json, builds_json, response>>

\* Lines 188-194.
changelog_device_fetch(self, up) ==
  /\ pc[self] = "changelog_device_fetch"
  /\ Respond(self, request[self],
             changelog_device_view(request[self].device,
                                   locals[self].changelog, up),
             Append(fetched[self],
                    Fetch(device_changelog_url(request[self].device), up)))

\* The response is sent and the worker takes the next request.
Release(self) ==
  /\ pc[self] = "done"
  /\ pc' = [pc EXCEPT ![self] = "idle"]
  /\ request' = [request EXCEPT ![self] = NoRequest]
  /\ response' = [response EXCEPT ![self] = NoResponse]
  /\ fetched' = [fetched EXCEPT ![self] = << >>]
  /\ UNCHANGED <<devices_json, builds_json, locals>>

InitWorkers ==
  /\ request = [w \in Workers |-> NoRequest]
  /\ locals = [w \in Workers |-> NoLocals]
  /\ fetched = [w \in Workers |-> << >>]
  /\ response = [w \in Workers |-> NoResponse]

\* One worker, any directory and any manifest.
Init ==
  /\ devices_json \in Directories
  /\ builds_json \in Manifests
  /\ pc = [w \in Workers |-> IF w = "w1" THEN "idle" ELSE "down"]
  /\ InitWorkers

\* Two workers, any directory and a small manifest.
InitConcurrent ==
  /\ devices_json \in Directories
  /\ builds_json \in { m \in Manifests : CountBuilds(m) <= MaxConcBuilds }
  /\ pc = [w \in Workers |-> "idle"]
  /\ InitWorkers

Next ==
  \E self \in Workers :
    \/ show_files_begin(self)
    \/ show_files_loop(self)
    \/ show_files_render(self)
    \/ \E target_device \in DeviceArgs : latest_device(self, target_device)
    \/ \E device \in DeviceArgs, romtype \in RomtypeArgs :
         ota(self, device, romtype)
    \/ \E up \in UpstreamResponses : changelog(self, up)
    \/ \E device \in DeviceArgs, up \in UpstreamResponses :
         changelog_device_begin(self, device, up)
    \/ \E up \in UpstreamResponses : changelog_device_fetch(self, up)
    \/ Release(self)

Spec == Init /\ [][Next]_vars

SpecConcurrent == InitConcurrent /\ [][Next]_vars

(***************************************************************************)
(* Properties.                                                             *)
(***************************************************************************)
\* Worker w has served a request of the route and holds its response.
Served(w, route) == pc[w] = "done" /\ request[w].route = route

DirectoryCodenames == { devices_json[i].codename : i \in DOMAIN devices_json }

ZipSuffix == <<".", "z", "i", "p">>
ImgSuffix == <<"-", "i", "m", "g", ".", "z", "i", "p">>
BootSuffix == <<"-", "b", "o", "o", "t", ".", "i", "m", "g">>
ImgKey(t) == t \o <<"-", "i", "m", "g">>
BootKey(t) == t \o <<"-", "b", "o", "o", "t">>

RECURSIVE JoinWith(_, _)
JoinWith(parts, sep) ==
  IF Len(parts) = 1 THEN parts[1]
  ELSE parts[1] \o sep \o JoinWith(Tail(parts), sep)

\* Every newline of s replaced by <br>.
WithLineBreaks(s) == JoinWith(split(s, "\n"), <<"<", "b", "r", ">">>)

\* C1: when GET /<device>/<romtype> finds a match, the response array holds
\* exactly one object, built from the first build in manifest order of that
\* device whose type is romtype: id is its sha256, romtype, version,
\* filename and size are its fields, and url is DOWNLOAD_BASE_URL, its
\* filepath and its filename concatenated with nothing in between.
C1_OtaFirstMatch ==
  \A w \in Workers :
    ( /\ Served(w, "ota")
      /\ response[w].kind = "json"
      /\ response[w].json.response # << >> ) =>
      LET d == request[w].device
          t == request[w].romtype
          found == response[w].json.response
      IN  /\ Len(found) = 1
          /\ d \in ManifestKeys
          /\ \E i \in DOMAIN ManifestGet(d) :
               LET b == ManifestGet(d)[i]
               IN  /\ b.type = t
                   /\ \A j \in 1..(i - 1) : ManifestGet(d)[j].type # t
                   /\ found[1].id = b.sha256
                   /\ found[1].romtype = b.type
                   /\ found[1].version = b.version
                   /\ found[1].filename = b.filename
                   /\ found[1].size = b.size
                   /\ Len(found[1].url) =
                        Len(DOWNLOAD_BASE_URL) + Len(b.filepath) + Len(b.filename)
                   /\ found[1].url =
                        [k \in 1..Len(found[1].url) |->
                           IF k <= Len(DOWNLOAD_BASE_URL) THEN DOWNLOAD_BASE_URL[k]
                           ELSE IF k <= Len(DOWNLOAD_BASE_URL) + Len(b.filepath)
                           THEN b.filepath[k - Len(DOWNLOAD_BASE_URL)]
                           ELSE b.filename[k - Len(DOWNLOAD_BASE_URL)
                                             - Len(b.filepath)]]

\* A match was returned for a device that lists two builds of the type, the
\* first of them the older one.
C1_Witness ==
  \E w \in Workers :
    /\ Served(w, "ota")
    /\ response[w].kind = "json"
    /\ response[w].json.response # << >>
    /\ \E i, j \in DOMAIN ManifestGet(request[w].device) :
         /\ i < j
         /\ ManifestGet(request[w].device)[i].type = request[w].romtype
         /\ ManifestGet(request[w].device)[j].type = request[w].romtype
         /\ arrow_timestamp(ManifestGet(request[w].device)[i].date)
              < arrow_timestamp(ManifestGet(request[w].device)[j].date)

\* The device has no build of the type: it is not in the directory, or not
\* in the manifest, or none of its builds has the type.
NoBuildOfType(d, t) ==
  \/ d \notin DirectoryCodenames
  \/ d \notin ManifestKeys
  \/ \A i \in DOMAIN ManifestGet(d) : ManifestGet(d)[i].type # t

\* C2: when the device has no build of the type romtype, GET
\* /<device>/<romtype> completes normally and returns exactly
\* {"response": []}, never an error.
C2_NoMatchIsEmpty ==
  \A w \in Workers :
    (Served(w, "ota") /\ NoBuildOfType(request[w].device, request[w].romtype))
      => response[w] = Json([response |-> << >>])

\* C3: GET /<target_device> returns the "no build" string exactly when the
\* device is not a key of the manifest, and the rendered device page with
\* the collected map whenever it is a key, the map being empty included.
C3_DevicePageByManifest ==
  \A w \in Workers :
    Served(w, "latest_device") =>
      LET d == request[w].device
      IN  /\ (response[w] = Text(no_build_message(d))) <=> (d \notin ManifestKeys)
          /\ d \in ManifestKeys =>
               /\ response[w].kind = "template"
               /\ response[w].template = "device.html"
               /\ response[w].context.available_files =
                    available_files_of(ManifestGet(d), EmptyDict)

\* The keys one build contributes.
KeysOf(b) ==
  {b.type}
    \cup (IF "fastboot_images" \in DOMAIN b /\ b.fastboot_images
          THEN {ImgKey(b.type)} ELSE {})
    \cup (IF "boot_image" \in DOMAIN b /\ b.boot_image
          THEN {BootKey(b.type)} ELSE {})

ExpectedKeys(builds) ==
  UNION { KeysOf(builds[i]) :
            i \in { j \in DOMAIN builds : builds[j].type \in ALLOWED_BUILDTYPES } }

\* A filename ending in .zip with that ending exchanged.
WithSuffix(filename, suffix) ==
  SubSeq(filename, 1, Len(filename) - Len(ZipSuffix)) \o suffix

\* C4: for a device of the manifest, the keys of the available-files map
\* are exactly the union over its allow-listed builds of T, T-img when
\* fastboot_images is set and T-boot when boot_image is set (no page and no
\* map when that union is empty); a build of another type adds no key.  A
\* single allow-listed build with both flags yields the three keys with the
\* filename, the filename with -img.zip and the filename with -boot.img.
C4_AvailableFileKeys ==
  \A w \in Workers :
    (Served(w, "latest_device") /\ request[w].device \in ManifestKeys) =>
      LET builds == ManifestGet(request[w].device)
          rendered == response[w].kind = "template"
          files == IF rendered THEN response[w].context.available_files
                   ELSE EmptyDict
      IN  /\ DOMAIN files = ExpectedKeys(builds)
          /\ rendered <=> ExpectedKeys(builds) # {}
          /\ ( /\ Len(builds) = 1
               /\ builds[1].type \in ALLOWED_BUILDTYPES
               /\ Cardinality(KeysOf(builds[1])) = 3 ) =>
               /\ files[builds[1].type] = builds[1].filename
               /\ files[ImgKey(builds[1].type)] =
                    WithSuffix(builds[1].filename, ImgSuffix)
               /\ files[BootKey(builds[1].type)] =
                    WithSuffix(builds[1].filename, BootSuffix)

\* The page of a device that lists an official build with both flags and a
\* build of another type with both flags shows exactly the three keys.
C4_Witness ==
  \E w \in Workers :
    /\ Served(w, "latest_device")
    /\ response[w].kind = "template"
    /\ DOMAIN response[w].context.available_files =
         {official, ImgKey(official), BootKey(official)}
    /\ \E i \in DOMAIN ManifestGet(request[w].device) :
         LET b == ManifestGet(request[w].device)[i]
         IN  b.type \notin ALLOWED_BUILDTYPES /\ Cardinality(KeysOf(b)) = 3

\* The fields of a filename, and what the manifest lists for a codename.
ZipFields(filename) == split(splitext(filename), "-")

ListedCodenames == { ZipFields(get_zips[i])[4] : i \in DOMAIN get_zips }

DatesOf(c) ==
  { ZipFields(get_zips[i])[5] :
      i \in { j \in DOMAIN get_zips : ZipFields(get_zips[j])[4] = c } }

\* C5: the index page keeps, for every codename that is the 4th field of a
\* listed filename, the greatest YYYYMMDD among the filenames carrying that
\* codename, whatever the order of the builds and whatever manifest key
\* they are stored under.
C5_IndexKeepsGreatestDate ==
  \A w \in Workers :
    Served(w, "show_files") =>
      /\ response[w].kind = "template"
      /\ DOMAIN response[w].context.build_dates = ListedCodenames
      /\ \A c \in ListedCodenames :
           \E d \in DatesOf(c) :
             /\ \A e \in DatesOf(c) : ToInt(e) <= ToInt(d)
             /\ response[w].context.build_dates[c] = strftime(d)

\* The index page was served from a manifest that lists a newer build of a
\* codename before an older one, one of them under another codename's key.
C5_Witness ==
  \E w \in Workers :
    /\ Served(w, "show_files")
    /\ \E p, q \in DOMAIN get_zips :
         /\ p < q
         /\ ZipFields(get_zips[p])[4] = ZipFields(get_zips[q])[4]
         /\ ToInt(ZipFields(get_zips[p])[5]) > ToInt(ZipFields(get_zips[q])[5])
    /\ \E i \in DOMAIN builds_json :
         \E k \in DOMAIN builds_json[i].builds :
           /\ ZipFields(builds_json[i].builds[k].filename)[4]
                # builds_json[i].codename
           /\ Cardinality(DatesOf(ZipFields(builds_json[i].builds[k].filename)[4])) > 1

\* C6: GET /changelog makes exactly one upstream fetch; on a status other
\* than 200 it returns 'Fetching changelog failed!' and nothing of the
\* body, on 200 the body with every newline replaced by <br>.
C6_Changelog ==
  \A w \in Workers :
    Served(w, "changelog") =>
      /\ Len(fetched[w]) = 1
      /\ fetched[w][1].url = changelog_url
      /\ fetched[w][1].status # 200 =>
           response[w] = Text(changelog_failed_message)
      /\ fetched[w][1].status = 200 =>
           response[w] = Text(WithLineBreaks(fetched[w][1].text))

\* The upstream answered 404 with a body.
C6_Witness ==
  \E w \in Workers :
    /\ Served(w, "changelog")
    /\ fetched[w][1].status = 404
    /\ fetched[w][1].text # << >>

\* What C7 says of the fetches and of the failure string.
C7_FetchesAndFailure(w) ==
  /\ pc[w] = "changelog_device_fetch" =>
       /\ Len(fetched[w]) = 1
       /\ fetched[w][1].url = changelog_url
  /\ Served(w, "changelog_device") =>
       /\ Len(fetched[w]) = 2
       /\ fetched[w][1].url = changelog_url
       /\ fetched[w][2].url = device_changelog_url(request[w].device)
       /\ (response[w] = Text(device_changelog_failed_message(request[w].device)))
            <=> (fetched[w][2].status # 200)

\* C7 as stated: GET /changelog/<device> fetches the global changelog, then
\* the per-device one, fails exactly when the second fetch is not 200, and
\* otherwise returns the global body, a newline and the per-device body.
C7_DeviceChangelogRaw ==
  \A w \in Workers :
    /\ C7_FetchesAndFailure(w)
    /\ (Served(w, "changelog_device") /\ fetched[w][2].status = 200) =>
         response[w] =
           Text(fetched[w][1].text \o << "\n" >> \o fetched[w][2].text)

\* C7 amended: as above, the text returned on success being the global
\* body, a newline and the per-device body with every newline of that
\* concatenation replaced by <br>, whatever the status of the global fetch.
C7_DeviceChangelog ==
  \A w \in Workers :
    /\ C7_FetchesAndFailure(w)
    /\ (Served(w, "changelog_device") /\ fetched[w][2].status = 200) =>
         response[w] =
           Text(WithLineBreaks(fetched[w][1].text \o << "\n" >>
                                 \o fetched[w][2].text))

\* The global fetch answered 404 and the per-device fetch 200.
C7_Witness ==
  \E w \in Workers :
    /\ Served(w, "changelog_device")
    /\ fetched[w][1].status = 404
    /\ fetched[w][2].status = 200

\* The response to the request of worker w, had it been served alone
\* against the files.
AloneResponse(w) ==
  LET r == request[w]
  IN  CASE r.route = "show_files" ->
             LET scan == show_files_scan(get_zips, parse_devices(devices_json),
                                         EmptyDict)
             IN  IF scan.raised # "" THEN Error(scan.raised)
                 ELSE show_files_page(scan.devices, scan.build_dates)
        [] r.route = "latest_device" -> latest_device_view(r.device)
        [] r.route = "ota" ->
             ota_json(IF r.device \notin DirectoryCodenames THEN Returned(<< >>)
                      ELSE IF r.device \notin ManifestKeys THEN Raised("KeyError")
                      ELSE Returned(first_of_type(ManifestGet(r.device),
                                                  r.romtype)))
        [] r.route = "changelog" -> changelog_view(fetched[w][1])
        [] r.route = "changelog_device" ->
             changelog_device_view(r.device, fetched[w][1].text, fetched[w][2])

\* C8: no step of any request changes the device directory or the build
\* manifest, and every response sent is the one the request would get
\* served alone against the same files, whatever the other worker is doing.
C8_ReadOnlyStateless ==
  [][ /\ devices_json' = devices_json
      /\ builds_json' = builds_json
      /\ \A w \in Workers :
           (pc[w] = "done" /\ pc'[w] = "idle") =>
             response[w] = AloneResponse(w) ]_vars

\* One worker has added a fallback entry to its device mapping while the
\* other has served the OTA request of that codename and a type it lists.
C8_Witness ==
  \E w1, w2 \in Workers :
    /\ pc[w1] = "show_files_render"
    /\ Served(w2, "ota")
    /\ request[w2].device \in (DOMAIN locals[w1].devices) \ DirectoryCodenames
    /\ request[w2].device \in ManifestKeys
    /\ \E i \in DOMAIN ManifestGet(request[w2].device) :
         ManifestGet(request[w2].device)[i].type = request[w2].romtype

\* C9: on the device page, the value at T-img is the value at T with .zip
\* replaced by -img.zip, and the value at T-boot is the value at T with
\* .zip replaced by -boot.img, for every allow-listed type T.
C9_DerivedEntriesConsistent ==
  \A w \in Workers :
    (Served(w, "latest_device") /\ response[w].kind = "template") =>
      LET files == response[w].context.available_files
      IN  \A t \in ALLOWED_BUILDTYPES :
            /\ ImgKey(t) \in DOMAIN files =>
                 files[ImgKey(t)] = replace(files[t], ZipSuffix, ImgSuffix)
            /\ BootKey(t) \in DOMAIN files =>
                 files[BootKey(t)] = replace(files[t], ZipSuffix, BootSuffix)

\* C10: for a device of the directory and of the manifest and an
\* allow-listed type T it has a build of, the filename the device page shows
\* under T is the filename GET /<device>/T returns.
C10_RoutesAgree ==
  \A w \in Workers :
    ( /\ Served(w, "latest_device")
      /\ request[w].device \in DirectoryCodenames
      /\ request[w].device \in ManifestKeys ) =>
      \A t \in ALLOWED_BUILDTYPES :
        ~NoBuildOfType(request[w].device, t) =>
          /\ response[w].kind = "template"
          /\ ota_view(request[w].device, t).kind = "json"
          /\ response[w].context.available_files[t] =
               ota_view(request[w].device, t).json.response[1].filename

====
